---- MODULE Spec2Model ----
(***************************************************************************)
(* Point-of-sale application: the sales screen (cart, checkout modal,      *)
(* create_order request), the product management screen (catalogue edits)  *)
(* and the backend store of committed orders with its dashboard summary.   *)
(*                                                                         *)
(* Strings typed by the user are sequences of one-character strings, so    *)
(* that parsing is computed and not assumed.  Pointer events only: an      *)
(* element covered by the modal backdrop or not rendered receives no       *)
(* event.                                                                  *)
(***************************************************************************)
EXTENDS Integers, Sequences, FiniteSets, TLC

(* ------------------------------ bounds --------------------------------- *)
\* units in the cart
MaxUnits == 2
\* sales session (SpecSales): create_order requests awaiting their answer,
\* committed orders
MaxInFlight == 2
MaxSessionOrders == 1
\* whole application (Spec): committed orders, catalogue writes
MaxOrders == 2
MaxEdits == 1
\* cart alone (SpecCart): units in the cart
MaxCartUnits == 5

(* --------------------------- input domains ----------------------------- *)
ProductIds == <<"p1", "p2">>
ProductIdSet == {ProductIds[i] : i \in DOMAIN ProductIds}
\* names typed in the product form: the name of the first seeded product, and
\* a name with a double quote and a semicolon
Names == {<<"A">>, <<"C", "\"", ";">>}
Prices == {150, 200}
PaymentMethods == {"cash", "card"}
NoMethod == "null"
NoError == "null"

\* Texts typed into the "amount received" field.  No text has a third
\* decimal that is exactly 5 with nothing after it: Math.round(val * 100)
\* then depends on the binary rounding of val * 100.
CashInputs ==
    { <<>>,
      <<"3", ",", "5", "0">>,
      <<"2", ".", "9", "9", "6">>,
      <<"7", "x">> }

\* the one text typed in the runs of the whole application
ExactCashInputs == { <<"3", ",", "5", "0">> }

(* ------------------------------- state --------------------------------- *)
VARIABLES
    catalog,        \* backend products table: id -> [name, price, available]
    orders,         \* backend orders table with items, in commit order
    route,          \* mounted page
    products,       \* the mounted page's products list
    error,          \* the mounted page's error
    cart,           \* sales page: cart
    isCheckoutOpen, \* sales page: checkout modal shown
    paymentMethod,  \* checkout modal
    cashReceived,   \* checkout modal: text of the amount field
    isSubmitting,   \* checkout modal
    inflight,       \* create_order requests awaiting their answer
    lastTap,        \* history: outcome of the last handleConfirm of this modal
    confirms,       \* history: onConfirm calls made by this modal
    edits,          \* history: number of catalogue writes so far
    isDev           \* build flag import.meta.env.DEV, fixed at start

vars == <<catalog, orders, route, products, error, cart, isCheckoutOpen,
          paymentMethod, cashReceived, isSubmitting, inflight, lastTap,
          confirms, edits, isDev>>

backendVars == <<catalog, orders>>
modalVars == <<paymentMethod, cashReceived, isSubmitting, lastTap, confirms>>

(* ------------------------------ helpers -------------------------------- *)
Min(S) == CHOOSE x \in S : \A y \in S : x <= y

RECURSIVE SumSeq(_)
SumSeq(s) == IF s = <<>> THEN 0 ELSE Head(s) + SumSeq(Tail(s))

RemoveAt(s, i) == [j \in 1..(Len(s) - 1) |-> IF j < i THEN s[j] ELSE s[j + 1]]

(* ------------------- backend: list_products (catalogue) ---------------- *)
ListProducts ==
    [i \in DOMAIN ProductIds |->
        [id |-> ProductIds[i],
         name |-> catalog[ProductIds[i]].name,
         price |-> catalog[ProductIds[i]].price,
         available |-> catalog[ProductIds[i]].available]]

(* --------------------------- sales page: cart -------------------------- *)
\* a total that forgets the quantities
CartTotalOfPrices(items) ==
    SumSeq([i \in DOMAIN items |-> items[i].product.price])

\* cart.reduce((sum, i) => sum + i.product.price * i.quantity, 0)
CartTotal(items) ==
    SumSeq([i \in DOMAIN items |-> items[i].product.price * items[i].quantity])

cartTotal == CartTotal(cart)

\* OrderPanel: items.reduce((sum, i) => sum + i.product.price * i.quantity, 0)
PanelTotal(items) ==
    SumSeq([i \in DOMAIN items |-> items[i].product.price * items[i].quantity])

\* <CheckoutModal total={cartTotal}>
ModalTotal == cartTotal

InCart(items, productId) ==
    \E i \in DOMAIN items : items[i].product.id = productId

\* addToCart that puts a new line in front of the others
AddToCartInFront(items, product) ==
    IF InCart(items, product.id)
    THEN [i \in DOMAIN items |->
            IF items[i].product.id = product.id
            THEN [items[i] EXCEPT !.quantity = @ + 1]
            ELSE items[i]]
    ELSE <<[product |-> product, quantity |-> 1]>> \o items

\* addToCart whose map forgets to compare the product ids
AddToCartEveryLine(items, product) ==
    IF InCart(items, product.id)
    THEN [i \in DOMAIN items |-> [items[i] EXCEPT !.quantity = @ + 1]]
    ELSE Append(items, [product |-> product, quantity |-> 1])

AddToCart(items, product) ==
    IF InCart(items, product.id)
    THEN [i \in DOMAIN items |->
            IF items[i].product.id = product.id
            THEN [items[i] EXCEPT !.quantity = @ + 1]
            ELSE items[i]]
    ELSE Append(items, [product |-> product, quantity |-> 1])

IncreaseQuantity(items, productId) ==
    [i \in DOMAIN items |->
        IF items[i].product.id = productId
        THEN [items[i] EXCEPT !.quantity = @ + 1]
        ELSE items[i]]

\* decreaseQuantity without its filter
DecreaseQuantityKeepingZero(items, productId) ==
    [i \in DOMAIN items |->
        IF items[i].product.id = productId
        THEN [items[i] EXCEPT !.quantity = @ - 1]
        ELSE items[i]]

PositiveQuantity(item) == item.quantity > 0

\* decreaseQuantity whose map forgets to compare the product ids
DecreaseQuantityEveryLine(items, productId) ==
    SelectSeq(
        [i \in DOMAIN items |-> [items[i] EXCEPT !.quantity = @ - 1]],
        PositiveQuantity)

DecreaseQuantity(items, productId) ==
    SelectSeq(
        [i \in DOMAIN items |->
            IF items[i].product.id = productId
            THEN [items[i] EXCEPT !.quantity = @ - 1]
            ELSE items[i]],
        PositiveQuantity)

\* a clearCart that drops the first line only
ClearCartFirstLine(items) == IF items = <<>> THEN <<>> ELSE Tail(items)

\* clearCart: cart = []
ClearCart(items) == <<>>

\* an order panel that never disables its buttons
IsEmptyNever(items) == FALSE

\* OrderPanel: items.length === 0 disables Clear and Checkout
IsEmpty(items) == Len(items) = 0

\* a payload that carries one unit of every line
BuildPayloadOfUnits(items, method) ==
    [items |-> [i \in DOMAIN items |->
                  [product_id |-> items[i].product.id,
                   product_name |-> items[i].product.name,
                   unit_price |-> items[i].product.price,
                   quantity |-> 1]],
     payment_method |-> method]

\* a payload that also carries the cash received of a cash payment
BuildPayloadWithCash(items, method) ==
    IF method = "cash"
    THEN [items |-> [i \in DOMAIN items |->
                       [product_id |-> items[i].product.id,
                        product_name |-> items[i].product.name,
                        unit_price |-> items[i].product.price,
                        quantity |-> items[i].quantity]],
          payment_method |-> method,
          cashReceived |-> cashReceived]
    ELSE [items |-> [i \in DOMAIN items |->
                       [product_id |-> items[i].product.id,
                        product_name |-> items[i].product.name,
                        unit_price |-> items[i].product.price,
                        quantity |-> items[i].quantity]],
          payment_method |-> method]

\* submitOrder: the payload built from the cart
BuildPayload(items, method) ==
    [items |-> [i \in DOMAIN items |->
                  [product_id |-> items[i].product.id,
                   product_name |-> items[i].product.name,
                   unit_price |-> items[i].product.price,
                   quantity |-> items[i].quantity]],
     payment_method |-> method]


(* ------------------------- lib/utils/format.ts ------------------------- *)
Abs(n) == IF n < 0 THEN 0 - n ELSE n

\* formatPrice: the text `${euros},${remainder padded to 2} €`, kept as its
\* two numeric fields; Math.floor is \div, |cents % 100| is Abs(cents) % 100
FormatPrice(cents) ==
    [euros |-> cents \div 100, remainder |-> Abs(cents) % 100]

(* --------------------------- checkout modal ---------------------------- *)
DigitChars == {"0", "1", "2", "3", "4", "5", "6", "7", "8", "9"}

DigitValue(c) ==
    CASE c = "0" -> 0 [] c = "1" -> 1 [] c = "2" -> 2 [] c = "3" -> 3
      [] c = "4" -> 4 [] c = "5" -> 5 [] c = "6" -> 6 [] c = "7" -> 7
      [] c = "8" -> 8 [] c = "9" -> 9

\* String.prototype.replace(",", "."): the first comma only
ReplaceComma(s) ==
    LET commas == {i \in DOMAIN s : s[i] = ","}
    IN  IF commas = {} THEN s ELSE [s EXCEPT ![Min(commas)] = "."]

\* length of the run of digits of s that starts at position from
DigitRun(s, from) ==
    Min({j \in from..(Len(s) + 1) : j = Len(s) + 1 \/ s[j] \notin DigitChars})
      - from

RECURSIVE DigitsValue(_, _, _)
DigitsValue(s, from, n) ==
    IF n = 0 THEN 0
    ELSE DigitsValue(s, from, n - 1) * 10 + DigitValue(s[from + n - 1])

\* parseFloat on texts without exponent: optional sign, digits, optional
\* "." and digits; NaN when there is no digit at all
ParseFloat(s) ==
    LET signed == Len(s) >= 1 /\ s[1] \in {"+", "-"}
        i0 == IF signed THEN 2 ELSE 1
        nInt == DigitRun(s, i0)
        dot == i0 + nInt
        hasDot == dot <= Len(s) /\ s[dot] = "."
        nFrac == IF hasDot THEN DigitRun(s, dot + 1) ELSE 0
    IN  [nan |-> nInt + nFrac = 0,
         negative |-> signed /\ s[1] = "-",
         int |-> DigitsValue(s, i0, nInt),
         frac |-> [k \in 1..nFrac |-> DigitValue(s[dot + k])]]

\* Math.round(val * 100) of a parsed number
RoundTimes100(v) ==
    LET d(k) == IF k <= Len(v.frac) THEN v.frac[k] ELSE 0
        magnitude == v.int * 100 + d(1) * 10 + d(2) + (IF d(3) >= 5 THEN 1 ELSE 0)
    IN  IF v.negative THEN 0 - magnitude ELSE magnitude

CashReceivedCents(text) ==
    LET val == ParseFloat(ReplaceComma(text))
    IN  IF val.nan THEN 0 ELSE RoundTimes100(val)

cashReceivedCents == CashReceivedCents(cashReceived)

\* the modal's total prop is the page's cartTotal
change == cashReceivedCents - cartTotal

\* canConfirm without the comparison of the cash received with the total
canConfirmIgnoringCash ==
    IF isSubmitting THEN FALSE
    ELSE IF paymentMethod = NoMethod THEN FALSE
    ELSE TRUE

\* canConfirm without the isSubmitting test
canConfirmWhileSubmitting ==
    IF paymentMethod = NoMethod THEN FALSE
    ELSE IF paymentMethod = "cash" /\ cashReceivedCents < cartTotal THEN FALSE
    ELSE TRUE

canConfirm ==
    IF isSubmitting THEN FALSE
    ELSE IF paymentMethod = NoMethod THEN FALSE
    ELSE IF paymentMethod = "cash" /\ cashReceivedCents < cartTotal THEN FALSE
    ELSE TRUE

\* {#if cashReceivedCents >= total} inside {#if paymentMethod === "cash"}
ChangeShown == paymentMethod = "cash" /\ cashReceivedCents >= cartTotal

\* a modal that is not mounted has no state: the fields of a fresh mount
FreshModal ==
    /\ paymentMethod' = NoMethod
    /\ cashReceived' = <<>>
    /\ isSubmitting' = FALSE
    /\ lastTap' = "none"
    /\ confirms' = 0

(* ---------------------- backend: create_order -------------------------- *)
\* a line total that forgets the quantity
CreateOrderItemUnitTotal(p, orderId, n) ==
    [id |-> n,
     order_id |-> orderId,
     product_id |-> p.product_id,
     product_name |-> p.product_name,
     unit_price |-> p.unit_price,
     quantity |-> p.quantity,
     total |-> p.unit_price]

CreateOrderItem(p, orderId, n) ==
    [id |-> n,
     order_id |-> orderId,
     product_id |-> p.product_id,
     product_name |-> p.product_name,
     unit_price |-> p.unit_price,
     quantity |-> p.quantity,
     total |-> p.unit_price * p.quantity]

CreateOrder(payload, orderId) ==
    LET items == [n \in DOMAIN payload.items |->
                    CreateOrderItem(payload.items[n], orderId, n)]
    IN  [id |-> orderId,
         created_at |-> orderId,
         total |-> SumSeq([n \in DOMAIN items |-> items[n].total]),
         payment_method |-> payload.payment_method,
         items |-> items]

\* validation before any write: EmptyOrder, InvalidPaymentMethod
CreateOrderValid(payload) ==
    /\ Len(payload.items) > 0
    /\ payload.payment_method \in PaymentMethods

\* the store after a commit that succeeds: one row appended, as a unit
StoreAfterCommit(store, payload) ==
    Append(store, CreateOrder(payload, Len(store) + 1))

\* a failure between the write of the order row and the write of its items
StoreAfterPartialWrite(store, payload) ==
    Append(store, [id |-> Len(store) + 1,
                   created_at |-> Len(store) + 1,
                   total |-> 0,
                   payment_method |-> payload.payment_method,
                   items |-> <<>>])

\* the store after a commit that fails: nothing of the attempt remains
StoreAfterFailure(store, payload) == store

(* ------------------ backend: get_dashboard_summary --------------------- *)
RECURSIVE Flatten(_)
Flatten(ss) == IF ss = <<>> THEN <<>> ELSE Head(ss) \o Flatten(Tail(ss))

\* every line item of the store, oldest first
LineItems(store) == Flatten([i \in DOMAIN store |-> store[i].items])

\* the product ids of a sequence of line items, in first-seen order
RECURSIVE FirstSeen(_)
FirstSeen(items) ==
    IF items = <<>> THEN <<>>
    ELSE LET before == FirstSeen(SubSeq(items, 1, Len(items) - 1))
             id == items[Len(items)].product_id
         IN  IF \E k \in DOMAIN before : before[k] = id
             THEN before
             ELSE Append(before, id)

\* revenue recomputed from the latest unit price instead of the line totals
PerProductSummaryLatestPrice(store) ==
    LET items == LineItems(store)
        ids == FirstSeen(items)
        Of(id) == {k \in DOMAIN items : items[k].product_id = id}
        Latest(id) == CHOOSE k \in Of(id) : \A j \in Of(id) : j <= k
        Quantity(id) == SumSeq([k \in DOMAIN items |->
                                  IF k \in Of(id) THEN items[k].quantity ELSE 0])
    IN  [n \in DOMAIN ids |->
            [product_id |-> ids[n],
             product_name |-> items[Latest(ids[n])].product_name,
             total_quantity |-> Quantity(ids[n]),
             total_revenue |-> Quantity(ids[n]) * items[Latest(ids[n])].unit_price]]

PerProductSummary(store) ==
    LET items == LineItems(store)
        ids == FirstSeen(items)
        Of(id) == {k \in DOMAIN items : items[k].product_id = id}
        Latest(id) == CHOOSE k \in Of(id) : \A j \in Of(id) : j <= k
    IN  [n \in DOMAIN ids |->
            [product_id |-> ids[n],
             product_name |-> items[Latest(ids[n])].product_name,
             total_quantity |->
                 SumSeq([k \in DOMAIN items |->
                           IF k \in Of(ids[n]) THEN items[k].quantity ELSE 0]),
             total_revenue |->
                 SumSeq([k \in DOMAIN items |->
                           IF k \in Of(ids[n]) THEN items[k].total ELSE 0])]]

MethodsUsed(store) ==
    LET Used(m) == \E i \in DOMAIN store : store[i].payment_method = m
    IN  (IF Used("cash") THEN <<"cash">> ELSE <<>>)
          \o (IF Used("card") THEN <<"card">> ELSE <<>>)

PerPaymentMethodSummary(store) ==
    LET methods == MethodsUsed(store)
    IN  [n \in DOMAIN methods |->
            [payment_method |-> methods[n],
             total_revenue |->
                 SumSeq([i \in DOMAIN store |->
                           IF store[i].payment_method = methods[n]
                           THEN store[i].total ELSE 0]),
             transaction_count |->
                 Cardinality({i \in DOMAIN store :
                                store[i].payment_method = methods[n]})]]

GetDashboardSummary(store) ==
    [total_revenue |-> SumSeq([i \in DOMAIN store |-> store[i].total]),
     total_transactions |-> Len(store),
     per_product |-> PerProductSummary(store),
     per_payment_method |-> PerPaymentMethodSummary(store)]

(* ------------------------- dashboard page: export ---------------------- *)
\* (cents / 100).toFixed(2) of a non-negative amount, as its two fields
CentsToEuros(cents) == [whole |-> cents \div 100, hundredths |-> cents % 100]

\* a division that drops the fraction instead of rounding it
RoundDivDown(a, b) == a \div b

\* Math.round(a / b) for a >= 0, b > 0
RoundDiv(a, b) == (2 * a + b) \div (2 * b)

\* exportCsv: the fields of the rows, without the header rows and the quoting
DashboardCsv(summary) ==
    [productRows |->
        [n \in DOMAIN summary.per_product |->
            LET row == summary.per_product[n]
            IN  [name |-> row.product_name,
                 unitPrice |-> CentsToEuros(RoundDiv(row.total_revenue,
                                                     row.total_quantity)),
                 quantity |-> row.total_quantity,
                 total |-> CentsToEuros(row.total_revenue)]],
     productTotal |-> CentsToEuros(summary.total_revenue),
     paymentRows |->
        [n \in DOMAIN summary.per_payment_method |->
            LET row == summary.per_payment_method[n]
            IN  [method |-> row.payment_method,
                 revenue |-> CentsToEuros(row.total_revenue),
                 count |-> row.transaction_count]],
     paymentTotal |-> [revenue |-> CentsToEuros(summary.total_revenue),
                       count |-> summary.total_transactions]]

(* ------------------------- dashboard page: table ----------------------- *)
\* the rows of the sales-by-product table
DashboardTable(summary) ==
    [n \in DOMAIN summary.per_product |->
        LET row == summary.per_product[n]
        IN  [name |-> row.product_name,
             unitPrice |-> FormatPrice(RoundDiv(row.total_revenue,
                                                row.total_quantity)),
             quantity |-> row.total_quantity,
             total |-> FormatPrice(row.total_revenue)]]

(* -------------------------- orders page: list -------------------------- *)
\* a row that looks the product up in the catalogue
OrderItemRowFromCatalog(item) ==
    [product |-> catalog[item.product_id].name,
     quantity |-> item.quantity,
     unitPrice |-> FormatPrice(catalog[item.product_id].price),
     subtotal |-> FormatPrice(catalog[item.product_id].price * item.quantity)]

\* one row of the items table of an order card
OrderItemRow(item) ==
    [product |-> item.product_name,
     quantity |-> item.quantity,
     unitPrice |-> FormatPrice(item.unit_price),
     subtotal |-> FormatPrice(item.total)]

OrderCard(order) ==
    [date |-> order.created_at,
     payment |-> order.payment_method,
     total |-> FormatPrice(order.total),
     rows |-> [n \in DOMAIN order.items |-> OrderItemRow(order.items[n])]]

\* what the orders page shows once list_orders has answered
OrdersPage == [i \in DOMAIN orders |-> OrderCard(orders[i])]

(* ------------------------- orders page: export ------------------------- *)
DigitChar(d) ==
    CASE d = 0 -> "0" [] d = 1 -> "1" [] d = 2 -> "2" [] d = 3 -> "3"
      [] d = 4 -> "4" [] d = 5 -> "5" [] d = 6 -> "6" [] d = 7 -> "7"
      [] d = 8 -> "8" [] d = 9 -> "9"

\* String(n) of a non-negative integer
RECURSIVE DigitsOf(_)
DigitsOf(n) ==
    IF n < 10 THEN <<DigitChar(n)>>
    ELSE Append(DigitsOf(n \div 10), DigitChar(n % 10))

\* centsToEuros: (cents / 100).toFixed(2) of a non-negative amount
OrdersCentsToEuros(cents) ==
    DigitsOf(cents \div 100)
      \o <<".", DigitChar((cents % 100) \div 10), DigitChar(cents % 10)>>

\* value.replace(/"/g, '""')
RECURSIVE DoubleQuotes(_)
DoubleQuotes(s) ==
    IF s = <<>> THEN <<>>
    ELSE (IF Head(s) = "\"" THEN <<"\"", "\"">> ELSE <<Head(s)>>)
           \o DoubleQuotes(Tail(s))

\* a q that forgets to double the quotes of the value
QWithoutDoubling(value) == <<"\"">> \o value \o <<"\"">>

\* q: the value between double quotes, its own quotes doubled
Q(value) == <<"\"">> \o DoubleQuotes(value) \o <<"\"">>

\* the text of a payment method
MethodText(method) ==
    IF method = "cash" THEN <<"c", "a", "s", "h">> ELSE <<"c", "a", "r", "d">>

\* the translated labels, by their keys
CsvLabel(key) ==
    CASE key = "csvColId" -> <<"I", "d">>
      [] key = "csvColDate" -> <<"D", "a", "t", "e">>
      [] key = "csvColTotal" -> <<"T", "o", "t", "a", "l">>
      [] key = "csvColPaymentMethod" -> <<"P", "a", "y", "m", "e", "n", "t">>
      [] key = "colUnitPrice" -> <<"U", "n", "i", "t">>
      [] key = "colQty" -> <<"Q", "t", "y">>
      [] key = "colSubtotal" -> <<"S", "u", "b", "t", "o", "t", "a", "l">>

\* the product names of the items of the orders, in first-seen order
RECURSIVE FirstSeenNames(_)
FirstSeenNames(items) ==
    IF items = <<>> THEN <<>>
    ELSE LET before == FirstSeenNames(SubSeq(items, 1, Len(items) - 1))
             name == items[Len(items)].product_name
         IN  IF \E k \in DOMAIN before : before[k] = name
             THEN before
             ELSE Append(before, name)

ProductNames(store) == FirstSeenNames(LineItems(store))

\* header: four fixed columns, then three columns per product name
CsvHeader(names) ==
    <<CsvLabel("csvColId"), CsvLabel("csvColDate"), CsvLabel("csvColTotal"),
      CsvLabel("csvColPaymentMethod")>>
      \o Flatten([n \in DOMAIN names |->
            <<names[n] \o <<" ", "(">> \o CsvLabel("colUnitPrice") \o <<")">>,
              names[n] \o <<" ", "(">> \o CsvLabel("colQty") \o <<")">>,
              names[n] \o <<" ", "(">> \o CsvLabel("colSubtotal") \o <<")">> >>])

\* itemsByProduct: a Map keyed by product_name, the last item set wins
ItemsByProduct(order, name) ==
    LET named == {k \in DOMAIN order.items : order.items[k].product_name = name}
    IN  IF named = {} THEN <<>>
        ELSE <<order.items[CHOOSE k \in named : \A j \in named : j <= k]>>

\* the cells of the row of an order, before quoting
CsvRow(order, names) ==
    <<DigitsOf(order.id), DigitsOf(order.created_at),
      OrdersCentsToEuros(order.total), MethodText(order.payment_method)>>
      \o Flatten([n \in DOMAIN names |->
            LET item == ItemsByProduct(order, names[n])
            IN  IF item # <<>>
                THEN <<OrdersCentsToEuros(item[1].unit_price),
                       DigitsOf(item[1].quantity),
                       OrdersCentsToEuros(item[1].total)>>
                ELSE << <<>>, <<>>, <<>> >>])

\* the cells of the export: the header, then one row per order
CsvCells(store) ==
    LET productNames == ProductNames(store)
    IN  <<CsvHeader(productNames)>>
          \o [i \in DOMAIN store |-> CsvRow(store[i], productNames)]

\* cells.map(q).join(";")
RECURSIVE JoinQuoted(_)
JoinQuoted(cells) ==
    IF Len(cells) = 1 THEN Q(cells[1])
    ELSE Q(cells[1]) \o <<";">> \o JoinQuoted(Tail(cells))

\* exportCsv: the lines of the file, which lines.join("\n") then puts together
ExportCsv(store) ==
    LET table == CsvCells(store)
    IN  [r \in DOMAIN table |-> JoinQuoted(table[r])]

(* ------------------------------- Init ---------------------------------- *)
\* the products table of a new database
SeedCatalog ==
    [id \in ProductIdSet |->
        IF id = "p1"
        THEN [name |-> <<"A">>, price |-> 150, available |-> TRUE]
        ELSE [name |-> <<"B">>, price |-> 200, available |-> TRUE]]

\* the application starts on the sales page with the seeded catalogue loaded
InitApp ==
    /\ catalog = SeedCatalog
    /\ orders = <<>>
    /\ route = "sales"
    /\ products = [i \in DOMAIN ProductIds |->
                     [id |-> ProductIds[i],
                      name |-> IF ProductIds[i] = "p1" THEN <<"A">> ELSE <<"B">>,
                      price |-> IF ProductIds[i] = "p1" THEN 150 ELSE 200,
                      available |-> TRUE]]
    /\ error = NoError
    /\ cart = <<>>
    /\ isCheckoutOpen = FALSE
    /\ paymentMethod = NoMethod
    /\ cashReceived = <<>>
    /\ isSubmitting = FALSE
    /\ inflight = <<>>
    /\ lastTap = "none"
    /\ confirms = 0
    /\ edits = 0

\* a production build
Init == InitApp /\ isDev = FALSE

\* a production or a development build
InitDev == InitApp /\ isDev \in BOOLEAN

(* ------------------------ sales page: rendering ------------------------ *)
\* the product grid and the order panel are rendered, and not covered by
\* the checkout modal's backdrop
SalesScreenShown == route = "sales" /\ error = NoError

PanelUsable == SalesScreenShown /\ ~isCheckoutOpen

ModalShown == route = "sales" /\ isCheckoutOpen

(* ------------------------ sales page: product grid --------------------- *)
\* collation rank of the characters that names are made of
CharRank(c) ==
    CASE c = "\"" -> 1 [] c = ";" -> 2 [] c = "A" -> 3 [] c = "B" -> 4
      [] c = "C" -> 5

\* a.localeCompare(b) of two names: negative, zero or positive
RECURSIVE LocaleCompare(_, _)
LocaleCompare(a, b) ==
    IF a = <<>> /\ b = <<>> THEN 0
    ELSE IF a = <<>> THEN 0 - 1
    ELSE IF b = <<>> THEN 1
    ELSE IF CharRank(Head(a)) < CharRank(Head(b)) THEN 0 - 1
    ELSE IF CharRank(Head(a)) > CharRank(Head(b)) THEN 1
    ELSE LocaleCompare(Tail(a), Tail(b))

\* the comparator of sortedProducts: available first, then the category
\* label (every product here is of one category), then the name
GridCompare(a, b) ==
    IF a.available # b.available
    THEN (IF a.available THEN 0 - 1 ELSE 1)
    ELSE LocaleCompare(a.name, b.name)

\* [...products].sort(comparator): a stable sort
SortedProducts(ps) ==
    LET Before(i, j) ==
            \/ GridCompare(ps[i], ps[j]) < 0
            \/ GridCompare(ps[i], ps[j]) = 0 /\ i < j
        Pos(i) == 1 + Cardinality({j \in DOMAIN ps : Before(j, i)})
    IN  [k \in DOMAIN ps |-> ps[CHOOSE i \in DOMAIN ps : Pos(i) = k]]

\* the buttons of the grid: one per product of sortedProducts
GridButtons(ps) ==
    LET sorted == SortedProducts(ps)
    IN  [k \in DOMAIN sorted |->
            [product |-> sorted[k], disabled |-> ~sorted[k].available]]

(* ------------------------ sales page: handlers ------------------------- *)
\* a product button without its disabled attribute
ProductClickAnyProduct(i) ==
    /\ PanelUsable
    /\ cart' = AddToCart(cart, products[i])
    /\ UNCHANGED <<backendVars, route, products, error, isCheckoutOpen,
                   modalVars, inflight, edits, isDev>>

\* ProductGrid button (disabled for an unavailable product) -> addToCart
ProductClick(i) ==
    /\ PanelUsable
    /\ products[i].available
    /\ cart' = AddToCart(cart, products[i])
    /\ UNCHANGED <<backendVars, route, products, error, isCheckoutOpen,
                   modalVars, inflight, edits, isDev>>

\* OrderPanel "+" of a rendered line -> increaseQuantity
IncreaseClick(i) ==
    /\ PanelUsable
    /\ cart' = IncreaseQuantity(cart, cart[i].product.id)
    /\ UNCHANGED <<backendVars, route, products, error, isCheckoutOpen,
                   modalVars, inflight, edits, isDev>>

\* OrderPanel "-" of a rendered line -> decreaseQuantity
DecreaseClick(i) ==
    /\ PanelUsable
    /\ cart' = DecreaseQuantity(cart, cart[i].product.id)
    /\ UNCHANGED <<backendVars, route, products, error, isCheckoutOpen,
                   modalVars, inflight, edits, isDev>>

\* OrderPanel Clear (disabled when the cart is empty) -> clearCart
ClearClick ==
    /\ PanelUsable
    /\ ~IsEmpty(cart)
    /\ cart' = ClearCart(cart)
    /\ UNCHANGED <<backendVars, route, products, error, isCheckoutOpen,
                   modalVars, inflight, edits, isDev>>

\* OrderPanel Checkout (disabled when the cart is empty) -> onCheckout
CheckoutClick ==
    /\ PanelUsable
    /\ ~IsEmpty(cart)
    /\ isCheckoutOpen' = TRUE
    /\ FreshModal
    /\ UNCHANGED <<backendVars, route, products, error, cart, inflight, edits, isDev>>

(* ----------------------- checkout modal: handlers ---------------------- *)
SelectPayment(method) ==
    /\ ModalShown
    /\ paymentMethod' = method
    /\ cashReceived' = IF method = "card" THEN <<>> ELSE cashReceived
    /\ UNCHANGED <<backendVars, route, products, error, cart, isCheckoutOpen,
                   isSubmitting, inflight, confirms, edits, isDev>>
    /\ lastTap' = "none"

\* bind:value of the amount field, rendered for cash only
TypeCash(text) ==
    /\ ModalShown
    /\ paymentMethod = "cash"
    /\ cashReceived' = text
    /\ UNCHANGED <<backendVars, route, products, error, cart, isCheckoutOpen,
                   paymentMethod, isSubmitting, inflight, confirms, edits, isDev>>
    /\ lastTap' = "none"

\* why handleConfirm returns early, or "sent"
TapOutcome ==
    IF paymentMethod = NoMethod THEN "noMethod"
    ELSE IF canConfirm THEN "sent"
    ELSE IF isSubmitting THEN "busy"
    ELSE "cashShort"

\* a handleConfirm that returns early only while submitting
HandleConfirmAnyMethod ==
    /\ ModalShown
    /\ lastTap' = IF isSubmitting THEN "busy" ELSE "sent"
    /\ IF isSubmitting
       THEN UNCHANGED <<isSubmitting, confirms, inflight>>
       ELSE /\ isSubmitting' = TRUE
            /\ confirms' = confirms + 1
            /\ inflight' = Append(inflight,
                                  [payload |-> BuildPayload(cart, paymentMethod),
                                   live |-> TRUE])
    /\ UNCHANGED <<backendVars, route, products, error, cart, isCheckoutOpen,
                   paymentMethod, cashReceived, edits, isDev>>

\* handleConfirm, with the onConfirm = submitOrder call up to its await
HandleConfirm ==
    /\ ModalShown
    /\ lastTap' = TapOutcome
    /\ IF paymentMethod = NoMethod \/ ~canConfirm
       THEN UNCHANGED <<isSubmitting, confirms, inflight>>
       ELSE /\ isSubmitting' = TRUE
            /\ confirms' = confirms + 1
            /\ inflight' = Append(inflight,
                                  [payload |-> BuildPayload(cart, paymentMethod),
                                   live |-> TRUE])
    /\ UNCHANGED <<backendVars, route, products, error, cart, isCheckoutOpen,
                   paymentMethod, cashReceived, edits, isDev>>

\* Cancel button, disabled while submitting -> onCancel
CancelClick ==
    /\ ModalShown
    /\ ~isSubmitting
    /\ isCheckoutOpen' = FALSE
    /\ FreshModal
    /\ UNCHANGED <<backendVars, route, products, error, cart, inflight, edits, isDev>>

\* click on the backdrop, or Escape -> onCancel
BackdropClick ==
    /\ ModalShown
    /\ isCheckoutOpen' = FALSE
    /\ FreshModal
    /\ UNCHANGED <<backendVars, route, products, error, cart, inflight, edits, isDev>>

(* ------------------- submitOrder after its await ----------------------- *)
\* create_order resolves: the backend has committed the order
CreateOrderResolved(k) ==
    /\ k \in DOMAIN inflight
    /\ CreateOrderValid(inflight[k].payload)
    /\ orders' = StoreAfterCommit(orders, inflight[k].payload)
    /\ inflight' = RemoveAt(inflight, k)
    /\ IF inflight[k].live
       THEN /\ cart' = <<>>
            /\ isCheckoutOpen' = FALSE
            /\ FreshModal
       ELSE UNCHANGED <<cart, isCheckoutOpen, modalVars>>
    /\ UNCHANGED <<catalog, route, products, error, edits, isDev>>

\* a catch branch that also empties the cart
CreateOrderRejectedClearingCart(k) ==
    /\ k \in DOMAIN inflight
    /\ orders' = StoreAfterFailure(orders, inflight[k].payload)
    /\ inflight' = RemoveAt(inflight, k)
    /\ IF inflight[k].live
       THEN /\ error' = "sales.orderError"
            /\ cart' = <<>>
            /\ isCheckoutOpen' = FALSE
            /\ FreshModal
       ELSE UNCHANGED <<error, cart, isCheckoutOpen, modalVars>>
    /\ UNCHANGED <<catalog, route, products, edits, isDev>>

\* create_order rejects: validation error or storage failure
CreateOrderRejected(k) ==
    /\ k \in DOMAIN inflight
    /\ orders' = StoreAfterFailure(orders, inflight[k].payload)
    /\ inflight' = RemoveAt(inflight, k)
    /\ IF inflight[k].live
       THEN /\ error' = "sales.orderError"
            /\ isCheckoutOpen' = FALSE
            /\ FreshModal
       ELSE UNCHANGED <<error, isCheckoutOpen, modalVars>>
    /\ UNCHANGED <<catalog, route, products, cart, edits, isDev>>

(* ----------------------------- navigation ------------------------------ *)
Routes == {"sales", "products"}

\* the requests of a page that is gone complete without a page to update
Orphaned(reqs) == [k \in DOMAIN reqs |-> [reqs[k] EXCEPT !.live = FALSE]]

\* NavMenu link: the page is destroyed, the target mounts and loads
Navigate(to) ==
    /\ to # route
    /\ route' = to
    /\ \/ products' = ListProducts /\ error' = NoError
       \/ products' = <<>> /\ error' = "loadError"
    /\ cart' = <<>>
    /\ isCheckoutOpen' = FALSE
    /\ FreshModal
    /\ inflight' = Orphaned(inflight)
    /\ UNCHANGED <<backendVars, edits, isDev>>

(* ------------------------ products page: handlers ---------------------- *)
TableShown == route = "products" /\ error = NoError

\* update_product: the row after the write
UpdatedRow(name, price, available) ==
    [name |-> name, price |-> price, available |-> available]

\* handleSave of an edited product: update_product, closeForm, loadData
HandleSave(i, name, price, available) ==
    /\ TableShown
    /\ \/ /\ catalog' = [catalog EXCEPT
                           ![products[i].id] = UpdatedRow(name, price, available)]
          /\ edits' = edits + 1
          /\ \/ products' = ListProducts' /\ UNCHANGED error
             \/ UNCHANGED products /\ error' = "loadError"
       \/ /\ error' = "saveError"
          /\ UNCHANGED <<catalog, edits, products>>
    /\ UNCHANGED <<orders, route, cart, isCheckoutOpen, modalVars, inflight,
                   isDev>>

\* a local update that gives the new value to every row
ToggleAvailabilityEveryRow(i) ==
    /\ TableShown
    /\ \/ /\ catalog' = [catalog EXCEPT ![products[i].id].available = ~@]
          /\ edits' = edits + 1
          /\ LET newAvailable == ~catalog[products[i].id].available
             IN  products' = [j \in DOMAIN products |->
                                [products[j] EXCEPT !.available = newAvailable]]
          /\ UNCHANGED error
       \/ /\ error' = "toggleError"
          /\ UNCHANGED <<catalog, edits, products>>
    /\ UNCHANGED <<orders, route, cart, isCheckoutOpen, modalVars, inflight,
                   isDev>>

\* toggleAvailability: toggle_product_availability, then the local update
ToggleAvailability(i) ==
    /\ TableShown
    /\ \/ /\ catalog' = [catalog EXCEPT ![products[i].id].available = ~@]
          /\ edits' = edits + 1
          /\ LET newAvailable == ~catalog[products[i].id].available
             IN  products' = [j \in DOMAIN products |->
                                IF products[j].id = products[i].id
                                THEN [products[j] EXCEPT !.available = newAvailable]
                                ELSE products[j]]
          /\ UNCHANGED error
       \/ /\ error' = "toggleError"
          /\ UNCHANGED <<catalog, edits, products>>
    /\ UNCHANGED <<orders, route, cart, isCheckoutOpen, modalVars, inflight,
                   isDev>>

(* --------------------- nav menu: reset (dev builds) -------------------- *)
\* reset_database: the store of a new database
ResetStore(store) == <<>>

\* a reset button rendered in every build
ResetDatabaseInAnyBuild ==
    /\ catalog' = SeedCatalog
    /\ orders' = ResetStore(orders)
    /\ \/ products' = ListProducts' /\ error' = NoError
       \/ products' = <<>> /\ error' = "loadError"
    /\ cart' = <<>>
    /\ isCheckoutOpen' = FALSE
    /\ FreshModal
    /\ inflight' = Orphaned(inflight)
    /\ UNCHANGED <<route, edits, isDev>>

\* reset button, rendered when isDev: confirm, reset_database, then
\* window.location.reload(): the current page mounts again and loads.  A
\* declined confirm or a failed call changes nothing.
ResetDatabase ==
    /\ isDev
    /\ catalog' = SeedCatalog
    /\ orders' = ResetStore(orders)
    /\ \/ products' = ListProducts' /\ error' = NoError
       \/ products' = <<>> /\ error' = "loadError"
    /\ cart' = <<>>
    /\ isCheckoutOpen' = FALSE
    /\ FreshModal
    /\ inflight' = Orphaned(inflight)
    /\ UNCHANGED <<route, edits, isDev>>

(* --------------------------- specifications ---------------------------- *)
Units(items) == SumSeq([i \in DOMAIN items |-> items[i].quantity])

\* handleConfirm is about to send a request
WouldSend == ModalShown /\ paymentMethod # NoMethod /\ canConfirm

\* One session on the sales screen: every event of the screen and of the
\* checkout modal, and both answers to create_order.
NextSales ==
    \/ \E i \in DOMAIN products :
          Units(cart) < MaxUnits /\ ProductClick(i)
    \/ \E i \in DOMAIN cart : Units(cart) < MaxUnits /\ IncreaseClick(i)
    \/ \E i \in DOMAIN cart : DecreaseClick(i)
    \/ ClearClick
    \/ CheckoutClick
    \/ \E method \in PaymentMethods : SelectPayment(method)
    \/ \E text \in CashInputs : TypeCash(text)
    \/ (WouldSend => Len(inflight) < MaxInFlight) /\ HandleConfirm
    \/ CancelClick
    \/ BackdropClick
    \/ \E k \in DOMAIN inflight :
          Len(orders) < MaxSessionOrders /\ CreateOrderResolved(k)
    \/ \E k \in DOMAIN inflight : CreateOrderRejected(k)

SpecSales == Init /\ [][NextSales]_vars

\* The whole application: sales sessions, navigation and catalogue writes.
\* The user waits for the answer of a request: while one is pending, no
\* other event happens.
Idle == inflight = <<>>

Next ==
    \/ \E i \in DOMAIN products :
          /\ Idle
          /\ Units(cart) < MaxUnits
          /\ ProductClick(i)
    \/ \E i \in DOMAIN cart :
          /\ Idle
          /\ Units(cart) < MaxUnits
          /\ IncreaseClick(i)
    \/ \E i \in DOMAIN cart : Idle /\ DecreaseClick(i)
    \/ Idle /\ ClearClick
    \/ Idle /\ CheckoutClick
    \/ \E method \in PaymentMethods : Idle /\ SelectPayment(method)
    \/ \E text \in ExactCashInputs : Idle /\ TypeCash(text)
    \/ Idle /\ HandleConfirm
    \/ Idle /\ CancelClick
    \/ Idle /\ BackdropClick
    \/ \E k \in DOMAIN inflight :
          Len(orders) < MaxOrders /\ CreateOrderResolved(k)
    \/ \E k \in DOMAIN inflight : CreateOrderRejected(k)
    \/ \E to \in Routes : Idle /\ Navigate(to)
    \/ \E i \in DOMAIN products, name \in Names, price \in Prices,
          available \in BOOLEAN :
          edits < MaxEdits /\ HandleSave(i, name, price, available)
    \/ \E i \in DOMAIN products : edits < MaxEdits /\ ToggleAvailability(i)

Spec == Init /\ [][Next]_vars

\* The whole application in a production or a development build: the
\* development build adds the reset button of the nav menu.
NextDev ==
    \/ Next
    \/ Idle /\ ResetDatabase

SpecDev == InitDev /\ [][NextDev]_vars

\* The cart alone: the order panel and the checkout modal up to Confirm,
\* with more units in the cart than the sessions above allow.
NextCart ==
    \/ \E i \in DOMAIN products :
          Units(cart) < MaxCartUnits /\ ProductClick(i)
    \/ \E i \in DOMAIN cart : Units(cart) < MaxCartUnits /\ IncreaseClick(i)
    \/ \E i \in DOMAIN cart : DecreaseClick(i)
    \/ ClearClick
    \/ CheckoutClick
    \/ \E method \in PaymentMethods : SelectPayment(method)
    \/ \E text \in CashInputs : TypeCash(text)
    \/ CancelClick
    \/ BackdropClick

SpecCart == Init /\ [][NextCart]_vars

(* ------------------------------ properties ----------------------------- *)
\* C1: every committed order's total is the sum of the totals of its line
\* items, and every line item's total is its unit price times its quantity.
OrderTotalsConsistent ==
    \A i \in DOMAIN orders :
        /\ orders[i].total =
              SumSeq([n \in DOMAIN orders[i].items |-> orders[i].items[n].total])
        /\ \A n \in DOMAIN orders[i].items :
              orders[i].items[n].total =
                 orders[i].items[n].unit_price * orders[i].items[n].quantity

\* an order of two lines and an order with a line of quantity 2 are stored
TwoLinesAndQuantityTwoStored ==
    /\ \E i \in DOMAIN orders : Len(orders[i].items) = 2
    /\ \E i \in DOMAIN orders : \E n \in DOMAIN orders[i].items :
          orders[i].items[n].quantity = 2

\* C2: a step that changes the catalogue leaves every committed order's line
\* items, and the rows the orders page shows for them, as they were.
SnapshotKept ==
    [][catalog' # catalog =>
          \A i \in DOMAIN orders :
              /\ i \in DOMAIN orders'
              /\ orders'[i].items = orders[i].items
              /\ OrdersPage'[i] = OrdersPage[i]]_vars

\* a product was sold and its name or price in the catalogue is now another
CatalogChangedAfterSale ==
    \E i \in DOMAIN orders : \E n \in DOMAIN orders[i].items :
        LET item == orders[i].items[n]
        IN  \/ catalog[item.product_id].name # item.product_name
            \/ catalog[item.product_id].price # item.unit_price

\* C3: a commit that fails leaves the stored orders and line items as they
\* were before the attempt.
FailedCommitWritesNothing ==
    [][(\E k \in DOMAIN inflight : CreateOrderRejected(k)) => orders' = orders]_vars

\* a commit has failed on a store that holds an order
FailedCommitAfterSale == error = "sales.orderError" /\ Len(orders) > 0

\* C4: the total revenue of the dashboard summary is the sum of the orders'
\* totals, of the per-product revenues and of the per-payment-method revenues,
\* and the total rows of the export are the sums of the rows above them.
EurosValue(e) == e.whole * 100 + e.hundredths

RevenueCrossCheck ==
    LET summary == GetDashboardSummary(orders)
        csv == DashboardCsv(summary)
    IN  /\ summary.total_revenue = SumSeq([i \in DOMAIN orders |-> orders[i].total])
        /\ summary.total_revenue =
              SumSeq([n \in DOMAIN summary.per_product |->
                        summary.per_product[n].total_revenue])
        /\ summary.total_revenue =
              SumSeq([n \in DOMAIN summary.per_payment_method |->
                        summary.per_payment_method[n].total_revenue])
        /\ EurosValue(csv.productTotal) =
              SumSeq([n \in DOMAIN csv.productRows |->
                        EurosValue(csv.productRows[n].total)])
        /\ EurosValue(csv.paymentTotal.revenue) =
              SumSeq([n \in DOMAIN csv.paymentRows |->
                        EurosValue(csv.paymentRows[n].revenue)])

\* two orders paid differently hold the same product at two unit prices
SameProductAtTwoPrices ==
    /\ Len(orders) = 2
    /\ orders[1].payment_method # orders[2].payment_method
    /\ \E n \in DOMAIN orders[1].items, m \in DOMAIN orders[2].items :
          /\ orders[1].items[n].product_id = orders[2].items[m].product_id
          /\ orders[1].items[n].unit_price # orders[2].items[m].unit_price

\* C5: with cash selected and less received than the total, Confirm is off
\* and the last tap on it sent nothing; otherwise the change is shown, is not
\* negative and is the cash received minus the total.
CashValidation ==
    (ModalShown /\ paymentMethod = "cash") =>
        IF cashReceivedCents < cartTotal
        THEN ~canConfirm /\ lastTap # "sent" /\ ~ChangeShown
        ELSE /\ ChangeShown
             /\ change >= 0
             /\ cashReceivedCents = cartTotal => change = 0
             /\ cashReceivedCents > cartTotal => change = cashReceivedCents - cartTotal

\* Confirm was tapped with too little cash, and no request is pending
ShortCashRefused ==
    /\ ModalShown
    /\ paymentMethod = "cash"
    /\ cashReceivedCents < cartTotal
    /\ lastTap = "cashShort"
    /\ inflight = <<>>

FailedCommitKeepsCart ==
    [][(\E k \in DOMAIN inflight : CreateOrderRejected(k)) => cart' = cart]_vars

\* a commit has failed and the cart still has its lines
FailedWithCart == error = "sales.orderError" /\ ~IsEmpty(cart)

\* C8: after a rejected create_order the sales screen still takes an event
\* (a first step towards re-opening checkout with the preserved cart).
SalesEvent ==
    \/ \E i \in DOMAIN products : ProductClick(i)
    \/ \E i \in DOMAIN cart : IncreaseClick(i)
    \/ \E i \in DOMAIN cart : DecreaseClick(i)
    \/ ClearClick
    \/ CheckoutClick
    \/ \E method \in PaymentMethods : SelectPayment(method)
    \/ \E text \in CashInputs : TypeCash(text)
    \/ HandleConfirm
    \/ CancelClick
    \/ BackdropClick

RetryAfterFailure ==
    (error = "sales.orderError" /\ ~IsEmpty(cart)) => ENABLED SalesEvent

\* C9: one opening of the checkout modal calls onConfirm at most once.
ConfirmAtMostOnce == confirms <= 1

\* Confirm was tapped again while the modal was submitting
SecondTapRefused == ModalShown /\ lastTap = "busy" /\ confirms = 1

\* C10: every cart line has a quantity of at least 1 and no two cart lines
\* hold the same product.
CartWellFormed ==
    /\ \A i \in DOMAIN cart : cart[i].quantity >= 1
    /\ \A i, j \in DOMAIN cart :
          cart[i].product.id = cart[j].product.id => i = j

\* a product added twice is one line of quantity 2
LineOfQuantityTwo == \E i \in DOMAIN cart : cart[i].quantity = 2

\* the units of a product in a cart, 0 when it has no line
QuantityOf(items, productId) ==
    SumSeq([i \in DOMAIN items |->
              IF items[i].product.id = productId THEN items[i].quantity ELSE 0])

\* C11: a click on a product raises the quantity of its cart line by exactly
\* 1, the line being appended with quantity 1 when the product had none, and
\* leaves every other line as it was.
AddToCartAddsOneUnit ==
    [][\A i \in DOMAIN products : ProductClick(i) =>
          LET id == products[i].id
          IN  /\ QuantityOf(cart', id) = QuantityOf(cart, id) + 1
              /\ Len(cart') = IF InCart(cart, id) THEN Len(cart) ELSE Len(cart) + 1
              /\ ~InCart(cart, id) =>
                    cart'[Len(cart')] = [product |-> products[i], quantity |-> 1]
              /\ \A j \in DOMAIN cart :
                    cart[j].product.id # id => cart'[j] = cart[j]]_vars

\* a line raised to 2 units next to a line still at 1
RaisedNextToAnotherLine ==
    /\ PanelUsable
    /\ Len(cart) = 2
    /\ cart[1].quantity = 2
    /\ cart[2].quantity = 1

\* C12: "-" lowers its line by 1 and removes it when it was at 1, the other
\* lines staying as they were and in their order; "+" raises its line by 1
\* and nothing else; decreaseQuantity of a product without a line returns the
\* cart as it was.
QuantityStepsByOne ==
    [][/\ \A i \in DOMAIN cart : DecreaseClick(i) =>
             LET id == cart[i].product.id
                 removed == cart[i].quantity = 1
             IN  /\ QuantityOf(cart', id) = cart[i].quantity - 1
                 /\ InCart(cart', id) <=> ~removed
                 /\ Len(cart') = IF removed THEN Len(cart) - 1 ELSE Len(cart)
                 /\ \A j \in DOMAIN cart :
                       j # i => cart'[IF removed /\ j > i THEN j - 1 ELSE j] = cart[j]
       /\ \A i \in DOMAIN cart : IncreaseClick(i) =>
             /\ Len(cart') = Len(cart)
             /\ cart'[i] = [product |-> cart[i].product,
                            quantity |-> cart[i].quantity + 1]
             /\ \A j \in DOMAIN cart : j # i => cart'[j] = cart[j]
       /\ \A id \in ProductIdSet :
             ~InCart(cart, id) => DecreaseQuantity(cart, id) = cart]_vars

\* one product has no line, the other has a line of 3 units
OneLineOfThreeUnits ==
    /\ PanelUsable
    /\ Len(cart) = 1
    /\ cart[1].quantity = 3

\* C13 as stated: addToCart of a product whose available flag is false
\* leaves the cart as it was.
UnavailableAddRefused ==
    route = "sales" =>
        \A i \in DOMAIN products :
            ~products[i].available => AddToCart(cart, products[i]) = cart

\* C13: the button of an unavailable product takes no click, and every cart
\* line holds a product that is available, in the line and in the catalogue.
UnavailableNeverAdded ==
    /\ \A i \in DOMAIN products :
          (route = "sales" /\ ~products[i].available) => ~ENABLED ProductClick(i)
    /\ \A j \in DOMAIN cart :
          /\ cart[j].product.available
          /\ catalog[cart[j].product.id].available

\* the sales screen shows an unavailable product next to a cart with a line
UnavailableShownWithCart ==
    /\ PanelUsable
    /\ ~IsEmpty(cart)
    /\ \E i \in DOMAIN products : ~products[i].available

\* C14: Clear empties the cart, sends no request and leaves the stored orders
\* and the catalogue as they were; clearing the cleared cart gives it again.
ClearRecordsNothing ==
    [][ClearClick =>
          /\ cart' = <<>>
          /\ ClearCart(cart') = cart'
          /\ inflight' = inflight
          /\ orders' = orders
          /\ catalog' = catalog]_vars

\* Clear is enabled on a cart of two lines while a request is pending
ClearOfTwoLinesPending ==
    /\ ENABLED ClearClick
    /\ Len(cart) = 2
    /\ inflight # <<>>

\* C15: the page's cart total is the sum over the cart lines of the product's
\* price in the catalogue times the quantity, and the order panel's total and
\* the checkout modal's total are equal to it.
CartTotalAgrees ==
    /\ cartTotal =
          SumSeq([i \in DOMAIN cart |->
                    catalog[cart[i].product.id].price * cart[i].quantity])
    /\ PanelTotal(cart) = cartTotal
    /\ ModalTotal = cartTotal

\* two units of a product whose price was edited are in the cart
TwoUnitsAtEditedPrice ==
    \E i \in DOMAIN cart :
        /\ cart[i].quantity = 2
        /\ cart[i].product.price # SeedCatalog[cart[i].product.id].price

\* C16 as stated: a cash request carries the cash received and a cash order
\* records it with the change given; a card request and a card order do not.
CashCommitCarriesCash ==
    /\ \A k \in DOMAIN inflight :
          ("cashReceived" \in DOMAIN inflight[k].payload)
             <=> (inflight[k].payload.payment_method = "cash")
    /\ \A i \in DOMAIN orders :
          IF orders[i].payment_method = "cash"
          THEN {"cashReceived", "changeGiven"} \subseteq DOMAIN orders[i]
          ELSE {"cashReceived", "changeGiven"} \cap DOMAIN orders[i] = {}

\* C16: a request carries its items and its payment method and nothing
\* else, and a stored order records neither cash received nor change given,
\* for cash as for card.
CommitCarriesNoCash ==
    /\ \A k \in DOMAIN inflight :
          /\ DOMAIN inflight[k].payload = {"items", "payment_method"}
          /\ \A n \in DOMAIN inflight[k].payload.items :
                DOMAIN inflight[k].payload.items[n] =
                   {"product_id", "product_name", "unit_price", "quantity"}
    /\ \A i \in DOMAIN orders :
          DOMAIN orders[i] =
             {"id", "created_at", "total", "payment_method", "items"}

\* a cash payment with change to give was confirmed and its request is pending
CashRequestPending ==
    /\ ModalShown
    /\ isSubmitting
    /\ paymentMethod = "cash"
    /\ change > 0
    /\ \E k \in DOMAIN inflight : inflight[k].payload.payment_method = "cash"

\* every committed order is still stored, unchanged, after the step
OrdersKept ==
    \A i \in DOMAIN orders : i \in DOMAIN orders' /\ orders'[i] = orders[i]

NewOrderCanStart ==
    PanelUsable /\ \E i \in DOMAIN products : products[i].available

\* C18: after create_order resolves for the mounted page the cart is empty,
\* the checkout modal is closed and a new order can be started.
ResolvedOrderCleared ==
    [][\A k \in DOMAIN inflight :
          (CreateOrderResolved(k) /\ inflight[k].live) =>
              /\ cart' = <<>>
              /\ ~isCheckoutOpen'
              /\ NewOrderCanStart']_vars

\* C19: every request and every stored order carries cash or card, and while
\* no payment method is selected Confirm is off and this modal has sent
\* nothing.
PaymentMethodFromClosedSet ==
    /\ \A k \in DOMAIN inflight :
          inflight[k].payload.payment_method \in {"cash", "card"}
    /\ \A i \in DOMAIN orders : orders[i].payment_method \in {"cash", "card"}
    /\ (ModalShown /\ paymentMethod = NoMethod) =>
          /\ ~canConfirm
          /\ ~isSubmitting
          /\ confirms = 0
          /\ lastTap \in {"none", "noMethod"}

\* Confirm was tapped with no payment method selected and nothing is pending
ConfirmWithoutMethodRefused ==
    /\ ModalShown
    /\ paymentMethod = NoMethod
    /\ lastTap = "noMethod"
    /\ inflight = <<>>

\* the ceilings tried: every amount up to the largest line total that a cart
\* of MaxCartUnits units can hold
CeilingsTried ==
    0..((CHOOSE p \in Prices : \A q \in Prices : q <= p) * MaxCartUnits)

\* C20: for some ceiling, no line total and no cart total is above it, and
\* addToCart and increaseQuantity leave the cart as it was when the unit
\* would push the line total past it.
QuantityCeilingEnforced ==
    \E c \in CeilingsTried :
        /\ cartTotal <= c
        /\ \A i \in DOMAIN cart :
              /\ cart[i].product.price * cart[i].quantity <= c
              /\ cart[i].product.price * (cart[i].quantity + 1) > c =>
                    /\ IncreaseQuantity(cart, cart[i].product.id) = cart
                    /\ AddToCart(cart, cart[i].product) = cart

\* C21: every product that the grid of the sales screen shows is available.
UnavailableNotShown ==
    SalesScreenShown =>
        \A k \in DOMAIN GridButtons(products) :
            GridButtons(products)[k].product.available

\* the position of the quote that closes the field whose content starts at
\* position i (a doubled quote does not close it), 0 when it is not closed
RECURSIVE ClosingQuote(_, _)
ClosingQuote(line, i) ==
    IF i > Len(line) THEN 0
    ELSE IF line[i] # "\"" THEN ClosingQuote(line, i + 1)
    ELSE IF i < Len(line) /\ line[i + 1] = "\"" THEN ClosingQuote(line, i + 2)
    ELSE i

\* the content of a quoted field, its doubled quotes read as one
RECURSIVE Undouble(_)
Undouble(s) ==
    IF s = <<>> THEN <<>>
    ELSE IF Head(s) = "\"" THEN <<"\"">> \o Undouble(Tail(Tail(s)))
    ELSE <<Head(s)>> \o Undouble(Tail(s))

\* reading back the semicolon-separated quoted fields of a line from
\* position i: their values, or <<>> when a field is not quoted, a quote is
\* not closed or a closed field is not followed by a semicolon
RECURSIVE ReadCsvFields(_, _)
ReadCsvFields(line, i) ==
    IF i > Len(line) \/ line[i] # "\"" THEN <<>>
    ELSE LET close == ClosingQuote(line, i + 1)
             value == Undouble(SubSeq(line, i + 1, close - 1))
             others == ReadCsvFields(line, close + 2)
         IN  IF close = 0 THEN <<>>
             ELSE IF close = Len(line) THEN <<value>>
             ELSE IF line[close + 1] # ";" THEN <<>>
             ELSE IF others = <<>> THEN <<>>
             ELSE <<value>> \o others

\* digits, a point and exactly two digits
TwoDecimals(text) ==
    /\ Len(text) >= 4
    /\ text[Len(text) - 2] = "."
    /\ \A k \in DOMAIN text : k # Len(text) - 2 => text[k] \in DigitChars

\* the export of a store is one header line and one line per order; every
\* line reads back, as semicolon-separated quoted fields with doubled quotes,
\* to the cells it was made of, all lines having as many fields as the
\* header; every amount is written with exactly two decimals (the cells of
\* a product that an order does not hold are empty)
CsvWellFormed(store) ==
    LET exported == ExportCsv(store)
        made == CsvCells(store)
        read == [r \in DOMAIN exported |-> ReadCsvFields(exported[r], 1)]
    IN  /\ Len(exported) = 1 + Len(store)
        /\ \A r \in DOMAIN exported :
              /\ read[r] # <<>>
              /\ read[r] = made[r]
              /\ Len(read[r]) = Len(read[1])
        /\ \A r \in DOMAIN exported :
              r > 1 =>
                /\ TwoDecimals(read[r][3])
                /\ \A c \in 5..Len(read[r]) :
                      (c % 3 # 0 /\ read[r][c] # <<>>) => TwoDecimals(read[r][c])

\* C22: the orders export is well formed (one header line and one line per
\* order, as many quoted fields on every line, each field reading back to
\* its value, amounts with two decimals) for every store the application
\* reaches: for the empty store it starts with, and for the store after
\* every step that changes it.
OrdersCsvWellFormed ==
    /\ CsvWellFormed(<<>>)
    /\ [][orders' # orders => CsvWellFormed(orders')]_vars

\* an order holds a product whose name has a double quote and a semicolon,
\* and another order does not hold that product
QuotedNameExported ==
    /\ Len(orders) = 2
    /\ \E n \in DOMAIN orders[1].items :
          /\ \E k \in DOMAIN orders[1].items[n].product_name :
                orders[1].items[n].product_name[k] = "\""
          /\ \A m \in DOMAIN orders[2].items :
                orders[2].items[m].product_name # orders[1].items[n].product_name

\* the snapshot unit prices at which a product was sold
SnapshotPrices(id) ==
    {LineItems(orders)[k].unit_price :
        k \in {j \in DOMAIN LineItems(orders) :
                 LineItems(orders)[j].product_id = id}}

\* C23: the unit price of a product in the dashboard table and in the
\* dashboard export is the whole cent nearest to total_revenue divided by
\* total_quantity; it is the snapshot price when every sale of the product
\* was at one price, and lies between the snapshot prices otherwise.
DashboardUnitPriceIsAverage ==
    LET summary == GetDashboardSummary(orders)
        csv == DashboardCsv(summary)
        table == DashboardTable(summary)
    IN  \A n \in DOMAIN summary.per_product :
            LET row == summary.per_product[n]
                unit == EurosValue(csv.productRows[n].unitPrice)
                sold == SnapshotPrices(row.product_id)
            IN  /\ table[n].unitPrice = FormatPrice(unit)
                /\ 2 * Abs(unit * row.total_quantity - row.total_revenue)
                      <= row.total_quantity
                /\ \A price \in sold : sold = {price} => unit = price
                /\ \E low \in sold, high \in sold : low <= unit /\ unit <= high

\* a product was sold at two prices and its average is not a whole cent
BlendedUnitPriceRounded ==
    \E n \in DOMAIN PerProductSummary(orders) :
        LET row == PerProductSummary(orders)[n]
        IN  /\ Cardinality(SnapshotPrices(row.product_id)) = 2
            /\ row.total_revenue % row.total_quantity # 0
            /\ RoundDiv(row.total_revenue, row.total_quantity)
                  \notin SnapshotPrices(row.product_id)

\* the amount, in cents, that the text of formatPrice denotes when it is
\* read as a signed decimal number of euros: the text starts with a minus
\* sign exactly when its euros field is negative
CentsDenoted(text) ==
    IF text.euros < 0
    THEN text.euros * 100 - text.remainder
    ELSE text.euros * 100 + text.remainder

\* C24: for every amount between minus the total of the cart and that total
\* (the line totals, the total, the change and the shortfall of a sale are
\* such amounts), the text of formatPrice, read back as a signed decimal
\* number of euros, denotes that amount.
FormatPriceReadsBack ==
    \A cents \in (0 - cartTotal)..cartTotal :
        CentsDenoted(FormatPrice(cents)) = cents

\* C25: no two create_order requests awaiting their answer were built from
\* the same cart contents.
OneRequestPerCart ==
    \A j \in DOMAIN inflight, k \in DOMAIN inflight :
        (j # k /\ inflight[j].live /\ inflight[k].live)
            => inflight[j].payload.items # inflight[k].payload.items

\* the request carries the line as it is in the cart
Submitted(payload, line) ==
    \E n \in DOMAIN payload.items :
        /\ payload.items[n].product_id = line.product.id
        /\ payload.items[n].quantity = line.quantity

\* C26: when a create_order of the page resolves, every line of the cart
\* that the request does not carry as it is (a line added, or one whose
\* quantity was changed, while the request was pending) is still in the
\* cart.
ResolveKeepsOtherLines ==
    [][\A k \in DOMAIN inflight :
          (CreateOrderResolved(k) /\ inflight[k].live) =>
              \A i \in DOMAIN cart :
                  ~Submitted(inflight[k].payload, cart[i]) =>
                      \E j \in DOMAIN cart' : cart'[j] = cart[i]]_vars

\* C27: when Confirm sends a create_order, the total of the modal, against
\* which the cash received was validated, is the sum of unit_price times
\* quantity over the items of the payload, and the payload has one item per
\* line of the cart, in the order of the cart, with the product id, the
\* name, the price and the quantity of the line.
SentPayloadIsTheCart ==
    [][Len(inflight') > Len(inflight) =>
          LET sent == inflight'[Len(inflight')].payload
          IN  /\ ModalTotal =
                    SumSeq([n \in DOMAIN sent.items |->
                              sent.items[n].unit_price * sent.items[n].quantity])
              /\ paymentMethod = "cash" =>
                    cashReceivedCents >=
                        SumSeq([n \in DOMAIN sent.items |->
                                  sent.items[n].unit_price * sent.items[n].quantity])
              /\ Len(sent.items) = Len(cart)
              /\ \A i \in DOMAIN cart :
                    /\ sent.items[i].product_id = cart[i].product.id
                    /\ sent.items[i].product_name = cart[i].product.name
                    /\ sent.items[i].unit_price = cart[i].product.price
                    /\ sent.items[i].quantity = cart[i].quantity]_vars

\* a cash payment of a cart of two lines has been sent
TwoLinesSentForCash ==
    /\ ModalShown
    /\ lastTap = "sent"
    /\ paymentMethod = "cash"
    /\ Len(cart) = 2
    /\ \E k \in DOMAIN inflight :
          inflight[k].live /\ Len(inflight[k].payload.items) = 2

\* the amount, in cents, of a cell of the export; an empty cell counts for
\* nothing
CellCents(text) ==
    IF text = <<>> THEN 0 ELSE RoundTimes100(ParseFloat(text))

\* on every row of the export of a store, the subtotal cells of the
\* products (the third of the three cells of each product name) add up to
\* the total cell of the order
CsvSubtotalsAddUp(store) ==
    LET made == CsvCells(store)
    IN  \A r \in DOMAIN made :
            r > 1 =>
                CellCents(made[r][3]) =
                    SumSeq([n \in 1..((Len(made[r]) - 4) \div 3) |->
                              CellCents(made[r][4 + 3 * n])])

\* C28: on every row of the orders export the per-product subtotal columns
\* add up to the total of the order, for every store the application
\* reaches, stores with an order of two line items of one product name and
\* with a renamed product included.
OrdersCsvSubtotalsAddUp ==
    /\ CsvSubtotalsAddUp(<<>>)
    /\ [][orders' # orders => CsvSubtotalsAddUp(orders')]_vars

\* the product ids of the lines of a cart, in the order of the lines
LineIds(items) == [i \in DOMAIN items |-> items[i].product.id]

\* C29: the lines of the cart stay in the order in which they were added: a
\* product button adds a line at the end for a product that is not in the
\* cart (a product whose line was removed included) and leaves the order
\* as it is otherwise; "+" leaves the order as it is; "-" leaves it as it
\* is, or takes its own line out of it.
CartKeepsInsertionOrder ==
    [][/\ \A i \in DOMAIN products :
             ProductClick(i) =>
                 LineIds(cart') =
                     IF InCart(cart, products[i].id)
                     THEN LineIds(cart)
                     ELSE Append(LineIds(cart), products[i].id)
       /\ \A i \in DOMAIN cart :
             IncreaseClick(i) => LineIds(cart') = LineIds(cart)
       /\ \A i \in DOMAIN cart :
             DecreaseClick(i) =>
                 LineIds(cart') =
                     IF cart[i].quantity > 1
                     THEN LineIds(cart)
                     ELSE RemoveAt(LineIds(cart), i)]_vars

\* the second seeded product is the first line, with more than one unit,
\* and the first seeded product comes after it
LaterLineAtTheEnd ==
    /\ LineIds(cart) = <<"p2", "p1">>
    /\ cart[1].quantity > 1

\* C30: a toggle leaves the list with the same products in the same order;
\* no row of another product changes; when the backend has written, the row
\* of the product differs from before in its available flag only, which is
\* the value the backend now holds; when the call fails, the list is as
\* before and the error is set.
ToggleChangesOneFlag ==
    [][\A i \in DOMAIN products :
          ToggleAvailability(i) =>
              /\ Len(products') = Len(products)
              /\ \A j \in DOMAIN products :
                    products[j].id # products[i].id => products'[j] = products[j]
              /\ IF catalog' # catalog
                 THEN /\ products'[i] =
                           [products[i] EXCEPT
                              !.available = catalog'[products[i].id].available]
                      /\ error' = error
                 ELSE /\ products' = products
                      /\ error' = "toggleError"]_vars

\* the table shows the first product as unavailable and the second as
\* available, after the one write to the catalogue
OneProductToggledOff ==
    /\ TableShown
    /\ edits = 1
    /\ ~products[1].available
    /\ products[2].available
    /\ products[1].name = <<"A">>
    /\ products[1].price = 150

====
